---- MODULE Spec2Model ----
(***************************************************************************)
(* Model of the monitor -> score -> predict -> decide -> act control loop  *)
(* of the predictive infrastructure service (src/app.py), of the cluster   *)
(* manager it drives (src/kubernetes_manager.py) and of its two logs       *)
(* (src/event_manager.py, src/audit_logger.py).                            *)
(*                                                                         *)
(* The node store is the cluster itself when a cluster is available and    *)
(* the demo_nodes dictionary otherwise; both are held in taints / pods /   *)
(* metrics, since exactly one of the two exists in a run.                  *)
(***************************************************************************)
EXTENDS Integers, Sequences, FiniteSets, TLC

\* ---------------------------------------------------------------- bounds
MaxTaints == 2      \* longest taint list a node may carry in the model
MaxEvents == 1      \* max_events of the EventManager the loop writes to
MaxRecords == 1     \* max_records of the AuditLogger the loop writes to
AuditCap == 2       \* max_records of the AuditLogger of concurrent appends
MaxCalls == 4       \* most calls made on a component studied on its own
EventCap == 2       \* largest max_events of an EventManager studied on its own
HistoryCap == 3     \* largest max_history of an AnalyticsEngine in the model
NodeHistoryLen == 2 \* maxlen of a per-node ring in the model (500 in the code)

\* ------------------------------------------------------------ universes
Threads == {"t1", "t2"}

NodeList == <<"node-01", "node-02">>

Nodes == {NodeList[i] : i \in 1..Len(NodeList)}

PodNames == {"pod-0", "pod-1"}

TaintKeys == {"degradation", "maintenance"}

Samples == {"healthy", "degrading"}

Statuses == {"healthy", "degrading", "recovering"}

VARIABLES
    available,    \* k8s_manager.available: TRUE = real cluster, FALSE = demo
    running,      \* MonitoringService.running
    pc,           \* position of every loop thread
    idx,          \* index of the node a loop thread is processing
    nodes_data,   \* the pods of each node in the snapshot of a thread's tick
    node_store,   \* per node: taints, pods, metrics (cluster or demo_nodes)
    events,       \* EventManager.events, newest first
    max_events,   \* EventManager.max_events
    audit_log,    \* AuditLogger.audit_log, oldest first
    max_records,  \* AuditLogger.max_records
    cfg_weights,  \* the health_scoring weights configured, in hundredths
    la_pc,        \* position of a thread inside a log_action call
    la_entry,     \* the entry that call appends
    la_tmp,       \* the slice audit_log[-max_records:] the call has taken
    la_base,      \* the audit log the concurrent calls started from
    recorded,     \* the calls made on the component under study, in order
    metrics_history,      \* AnalyticsEngine.metrics_history, oldest first
    node_health_history,  \* AnalyticsEngine.node_health_history, by node
    node_order,           \* the keys of node_health_history as inserted
    max_history,          \* AnalyticsEngine.max_history
    clock,        \* the time datetime.now() returns
    rm_pc,        \* position of a thread inside a record_metrics call
    rm_entry,     \* the entry that call has built
    tg_listing,   \* the nodes as the backend lists them: name, tainted, pods
    tg_source,    \* the source node of a target search
    tg_result,    \* the target found, "none", or "pending" before the search
    sc_input,     \* the node_data given to the scorer and the predictor
    sc_health,    \* the result of calculate_overall_health, None before
    sc_pred,      \* the result of predict_degradation, None before
    sc_weights,   \* HealthScorer.WEIGHTS, in hundredths
    q_result      \* a query of the history or the audit log with its answer

\* set at initialisation, never written afterwards
fixed == <<available, max_events, max_records, cfg_weights>>

\* the interpreter-level state of concurrent log_action calls (SpecAudit)
logger_vars == <<la_pc, la_entry, la_tmp, la_base>>

\* the state of the components studied on their own (SpecLog and after)
ring_vars == <<metrics_history, node_health_history, node_order,
               max_history>>

target_vars == <<tg_listing, tg_source, tg_result>>

score_vars == <<sc_input, sc_health, sc_pred, sc_weights>>

query_vars == <<q_result>>

calc_vars == <<target_vars, score_vars, query_vars>>

\* the clock and the record_metrics calls under way (SpecStamps)
stamp_vars == <<clock, rm_pc, rm_entry>>

study_vars == <<recorded, ring_vars, stamp_vars, calc_vars>>

vars == <<available, running, pc, idx, nodes_data, node_store, events,
          max_events, audit_log, max_records, cfg_weights, la_pc, la_entry,
          la_tmp, la_base, study_vars>>

\* ------------------------------------------------------------- helpers
\* an optional value: <<>> is None, <<x>> is the value x
None == <<>>

\* HealthScorer.WEIGHTS, in hundredths
WEIGHTS ==
    [cpu |-> 25, memory |-> 25, temperature |-> 20, latency |-> 15,
     disk_io |-> 15]

\* HealthScorer.THRESHOLDS
THRESHOLDS ==
    [cpu |-> [critical |-> 90, warning |-> 75, ok |-> 50],
     memory |-> [critical |-> 90, warning |-> 80, ok |-> 60],
     temperature |-> [critical |-> 85, warning |-> 70, ok |-> 50],
     latency |-> [critical |-> 50, warning |-> 30, ok |-> 10],
     disk_io |-> [critical |-> 85, warning |-> 70, ok |-> 40]]

Min(a, b) == IF a < b THEN a ELSE b

KeyCount(s, key) == Cardinality({i \in 1..Len(s) : s[i].key = key})

\* the taint "key=true:NoSchedule", split into its three parts
TaintOf(k) == [key |-> k, value |-> "true", effect |-> "NoSchedule"]

\* ------------------------------------------------------------ the logs
\* deque(maxlen).append: the new event goes last, the first one drops
add_event_append(evs, e) ==
    LET l == evs \o <<e>>
    IN  SubSeq(l, Len(l) - Min(Len(l), max_events) + 1, Len(l))

\* deque(maxlen).appendleft: the new event goes first, the oldest (last) drops
add_event(evs, e) ==
    SubSeq(<<e>> \o evs, 1, Min(Len(evs) + 1, max_events))

\* an event without its id, its timestamp, its description and its node
Event(type, title) == [type |-> type, title |-> title]

\* a slice that keeps the oldest entries, audit_log[:max_records]
LastRecords_head(l) ==
    IF Len(l) > max_records THEN SubSeq(l, 1, max_records) ELSE l

\* the slice audit_log[-max_records:]
LastRecords(l) ==
    IF Len(l) > max_records
    THEN SubSeq(l, Len(l) - max_records + 1, Len(l))
    ELSE l

\* append, then keep the last max_records entries
log_action(log, e) ==
    LET l == Append(log, e)
    IN  IF Len(l) > max_records THEN LastRecords(l) ELSE l

\* an entry without its timestamps and its free-form details
AuditEntry(action, resource, actor, status) ==
    [action |-> action, resource |-> resource, actor |-> actor,
     status |-> status]

\* ----------------------------------------------------- cluster manager
\* KubernetesManager.taint_node: read the node, append the taint, patch
k8s_taint_node(ts, t) == Append(ts, t)

\* a removal that clears the taint list
k8s_remove_taint_all(ts, key) == <<>>

\* KubernetesManager.remove_taint: keep the taints with another key
RECURSIVE k8s_remove_taint(_, _)
k8s_remove_taint(ts, key) ==
    IF ts = <<>> THEN <<>>
    ELSE IF Head(ts).key # key
         THEN <<Head(ts)>> \o k8s_remove_taint(Tail(ts), key)
         ELSE k8s_remove_taint(Tail(ts), key)

\* the loop of KubernetesManager.find_best_target_node over the listing
\* of the backend, a sequence of [name, tainted, pods]: the source and the
\* tainted nodes are skipped, and a node replaces the best one so far only
\* with strictly fewer pods (best = "none": the score is still infinite)
RECURSIVE BestFrom(_, _, _, _, _)
BestFrom(listing, i, src, best, score) ==
    IF i > Len(listing) THEN best
    ELSE LET node == listing[i]
         IN  IF node.name = src \/ node.tainted
             THEN BestFrom(listing, i + 1, src, best, score)
             ELSE IF best = "none" \/ node.pods < score
                  THEN BestFrom(listing, i + 1, src, node.name, node.pods)
                  ELSE BestFrom(listing, i + 1, src, best, score)

\* self.v1.list_node() on the cluster of the model, with the pod count
\* _get_node_pods finds for each node
list_node ==
    [i \in 1..Len(NodeList) |->
        [name |-> NodeList[i],
         tainted |-> node_store[NodeList[i]].taints # <<>>,
         pods |-> Cardinality(node_store[NodeList[i]].pods)]]

find_best_target_node(src) == BestFrom(list_node, 1, src, "none", 0)

\* ------------------------------------------------------------- initial
\* _ensure_demo_nodes: a demo node starts with generated pods and no taint
DemoNode == [taints |-> <<>>, pods |-> PodNames, metrics |-> "healthy"]

ClusterNodes ==
    [Nodes -> [taints : {<<>>}, pods : {{}, {"pod-0"}}, metrics : {"healthy"}]]

NoSnapshot == [n \in Nodes |-> {}]

NoEntry == AuditEntry("none", "none", "none", "none")

InitLogger ==
    /\ la_pc = [t \in Threads |-> "idle"]
    /\ la_entry = [t \in Threads |-> NoEntry]
    /\ la_tmp = [t \in Threads |-> <<>>]

\* AnalyticsEngine.__init__: empty rings, no node known
InitRings ==
    /\ metrics_history = <<>>
    /\ node_health_history = <<>>
    /\ node_order = <<>>

\* no record_metrics call under way
InitStamps ==
    /\ clock = 0
    /\ rm_pc = [t \in Threads |-> "idle"]
    /\ rm_entry = [t \in Threads |-> None]

\* a node_data dictionary: the numeric metrics, the number of pods, and
\* form = "ok", or what is wrong with it ("text": a metric is a string,
\* "not_a_dict": it is no dictionary at all)
NodeData(cpu, mem, temp, lat, disk, pods, form) ==
    [cpu_usage |-> cpu, memory_usage |-> mem, temperature |-> temp,
     network_latency |-> lat, disk_io |-> disk, pods |-> pods, form |-> form]

\* no search for a target and no scoring has been asked for
InitCalc ==
    /\ tg_listing = <<>>
    /\ tg_source = "none"
    /\ tg_result = "pending"
    /\ sc_input = NodeData(0, 0, 0, 0, 0, 0, "ok")
    /\ sc_health = None
    /\ sc_pred = None
    /\ sc_weights = WEIGHTS

InitStudy ==
    /\ recorded = <<>>
    /\ InitRings
    /\ InitStamps
    /\ q_result = None
    /\ max_history = HistoryCap
    /\ InitCalc

InitService ==
    /\ running = FALSE
    /\ pc = [t \in Threads |-> "dead"]
    /\ idx = [t \in Threads |-> 1]
    /\ nodes_data = [t \in Threads |-> NoSnapshot]

Init ==
    /\ available \in BOOLEAN
    /\ InitService
    /\ InitLogger
    /\ cfg_weights = WEIGHTS
    /\ InitStudy
    /\ la_base = <<>>
    /\ IF available
       THEN node_store \in ClusterNodes
       ELSE node_store = [n \in Nodes |-> DemoNode]
    /\ events = <<>>
    /\ max_events = MaxEvents
    /\ max_records = MaxRecords
    /\ audit_log = <<AuditEntry("SYSTEM_INIT", "cluster", "system",
                                IF available THEN "success" ELSE "demo_mode")>>

\* ---------------------------------------------------- MonitoringService
\* start(): returns at once when running, else sets the flag, spawns a loop
\* thread and records the start event; t: the thread it spawns
start(t) ==
    /\ ~running
    /\ pc[t] = "dead"
    /\ pc' = [pc EXCEPT ![t] = "check"]
    /\ running' = TRUE
    /\ events' = add_event(events,
                   Event("info", "Monitoring Service Started"))
    /\ UNCHANGED <<fixed, logger_vars, study_vars, idx, nodes_data, node_store,
                   audit_log>>

stop ==
    /\ running
    /\ running' = FALSE
    /\ UNCHANGED <<fixed, logger_vars, study_vars, pc, idx, nodes_data, node_store,
                   events, audit_log>>

CurNode(t) == NodeList[idx[t]]

\* the tick is over (its last node is done, or the handler around the tick
\* caught an exception): the thread sleeps one interval; the snapshot and
\* the index are dead from here on and the model forgets them
EndTick(t) ==
    /\ pc' = [pc EXCEPT ![t] = "sleep"]
    /\ idx' = [idx EXCEPT ![t] = 1]
    /\ nodes_data' = [nodes_data EXCEPT ![t] = NoSnapshot]

\* a tick whose exception nothing catches: the loop thread ends with it
tick_handler_none(t) ==
    /\ pc' = [pc EXCEPT ![t] = "dead"]
    /\ idx' = [idx EXCEPT ![t] = 1]
    /\ nodes_data' = [nodes_data EXCEPT ![t] = NoSnapshot]

\* except Exception around the whole tick: the error is logged and the
\* thread sleeps one interval, as after a tick that went through
tick_handler(t) == EndTick(t)

\* the loop's step to the next node of the list, or to the end of the tick
Advance(t) ==
    IF idx[t] < Len(NodeList)
    THEN /\ idx' = [idx EXCEPT ![t] = idx[t] + 1]
         /\ pc' = [pc EXCEPT ![t] = "node"]
         /\ UNCHANGED nodes_data
    ELSE EndTick(t)

\* a loop that never looks at the flag
loop_condition_forever == TRUE

\* the condition of "while self.running"
loop_condition == running

\* the refresh as a replacement of the whole entry instead of an update
demo_update_replace(node, fresh) ==
    [taints |-> <<>>, pods |-> node.pods, metrics |-> fresh]

\* demo_nodes[node_id].update({...six metric fields...})
demo_update(node, fresh) == [node EXCEPT !.metrics = fresh]

\* while self.running: collect the metrics of all nodes
tick_begin(t) ==
    /\ pc[t] = "check"
    /\ IF ~loop_condition
       THEN /\ pc' = [pc EXCEPT ![t] = "dead"]
            /\ UNCHANGED <<idx, nodes_data, node_store>>
       ELSE IF available
            THEN \E ok \in BOOLEAN :
                   IF ok
                   THEN /\ nodes_data' = [nodes_data EXCEPT
                              ![t] = [n \in Nodes |-> node_store[n].pods]]
                        /\ idx' = [idx EXCEPT ![t] = 1]
                        /\ pc' = [pc EXCEPT ![t] = "node"]
                        /\ UNCHANGED node_store
                   ELSE /\ tick_handler(t)
                        /\ UNCHANGED node_store
            ELSE \E fresh \in [Nodes -> Samples] :
                   /\ node_store' = [n \in Nodes |->
                                       demo_update(node_store[n], fresh[n])]
                   /\ nodes_data' = [nodes_data EXCEPT
                                       ![t] = [n \in Nodes |-> PodNames]]
                   /\ idx' = [idx EXCEPT ![t] = 1]
                   /\ pc' = [pc EXCEPT ![t] = "node"]
    /\ UNCHANGED <<fixed, logger_vars, study_vars, running, events, audit_log>>

\* one node of the tick: predict, score, record, then risk or recovery;
\* fault: a step of it raises, which only the handler around the whole
\* tick catches
assess(t, fault, is_at_risk, status) ==
    /\ pc[t] = "node"
    /\ IF fault
       THEN /\ tick_handler(t)
            /\ UNCHANGED <<events, audit_log>>
       ELSE IF is_at_risk
            THEN /\ audit_log' = log_action(audit_log,
                        AuditEntry("RISK_DETECTED", "node", "ml_engine",
                                   "success"))
                 /\ events' = add_event(events,
                        Event("risk", "Risk Detected"))
                 /\ pc' = [pc EXCEPT ![t] =
                             IF available THEN "taint" ELSE "settle"]
                 /\ UNCHANGED <<idx, nodes_data>>
            ELSE IF status = "recovering"
                 THEN /\ events' = add_event(events,
                             Event("info", "Node Recovering"))
                      /\ Advance(t)
                      /\ UNCHANGED audit_log
                 ELSE /\ Advance(t)
                      /\ UNCHANGED <<events, audit_log>>
    /\ UNCHANGED <<fixed, logger_vars, running, node_store>>

\* the step for any prediction and status, the loop's own history of
\* assessments left aside
score_node(t) ==
    /\ \E fault \in BOOLEAN, is_at_risk \in BOOLEAN, status \in Statuses :
         assess(t, fault, is_at_risk, status)
    /\ UNCHANGED study_vars

\* _handle_risk_detection, real cluster: taint the node, audit and report
\* it; ok = FALSE: taint_node raised
taint_step(t, ok) ==
    /\ pc[t] = "taint"
    /\ IF ok
       THEN /\ Len(node_store[CurNode(t)].taints) < MaxTaints
            /\ node_store' = [node_store EXCEPT ![CurNode(t)].taints =
                                k8s_taint_node(@, TaintOf("degradation"))]
            /\ audit_log' = log_action(audit_log,
                   AuditEntry("TAINT", "node", "system", "success"))
            /\ events' = add_event(events,
                   Event("action", "Node Tainted"))
       ELSE UNCHANGED <<node_store, audit_log, events>>
    /\ pc' = [pc EXCEPT ![t] = "settle"]
    /\ UNCHANGED <<fixed, logger_vars, study_vars, running, idx, nodes_data>>

\* the branches without the early return for an empty pod list
migrate_branch_no_return(snapshot_pods, target) ==
    IF available
    THEN IF target # "none" THEN "drain" ELSE "no_target"
    ELSE "demo"

\* the branch _migrate_workloads takes for a snapshot and a target
migrate_branch(snapshot_pods, target) ==
    IF snapshot_pods = {} THEN "return"
    ELSE IF available
         THEN IF target # "none" THEN "drain" ELSE "no_target"
         ELSE "demo"

\* _migrate_workloads after the settle delay; raised: drain_node raised,
\* at its listing or at the eviction of a pod after those already
\* evicted; evicted: the pods whose eviction succeeded
migrate(t, raised, evicted) ==
    /\ pc[t] = "settle"
    /\ LET n == CurNode(t)
           branch == migrate_branch(nodes_data[t][n], find_best_target_node(n))
       IN  IF branch = "drain"
           THEN IF raised
                THEN /\ evicted \subseteq node_store[n].pods
                     /\ node_store' = [node_store EXCEPT
                                         ![n].pods = @ \ evicted]
                     /\ UNCHANGED <<events, audit_log>>
                ELSE /\ evicted \subseteq node_store[n].pods
                     /\ node_store' = [node_store EXCEPT
                                         ![n].pods = @ \ evicted]
                     /\ audit_log' = log_action(audit_log,
                            AuditEntry("MIGRATE", "pods", "system", "success"))
                     /\ events' = add_event(events,
                            Event("action", "Workloads Migrated"))
           ELSE /\ ~raised /\ evicted = {}
                /\ IF branch = "demo"
                   THEN /\ audit_log' = log_action(audit_log,
                               AuditEntry("MIGRATE", "pods", "system",
                                          "success"))
                        /\ events' = add_event(events,
                               Event("action", "Workloads Migrated (Demo)"))
                        /\ UNCHANGED node_store
                   ELSE UNCHANGED <<node_store, events, audit_log>>
    /\ Advance(t)
    /\ UNCHANGED <<fixed, logger_vars, study_vars, running>>

\* time.sleep(self.interval) at the end of the tick
sleep(t) ==
    /\ pc[t] = "sleep"
    /\ pc' = [pc EXCEPT ![t] = "check"]
    /\ UNCHANGED <<fixed, logger_vars, study_vars, running, idx, nodes_data, node_store,
                   events, audit_log>>

\* ------------------------------------------------------- API requests
\* a lookup that makes a fresh entry for a node_id it does not find
demo_get_or_new(store, n) ==
    IF n \in DOMAIN store THEN <<store[n]>> ELSE <<DemoNode>>

\* demo_nodes.get(node_id): the entry of the node, None without one
demo_get(store, n) ==
    IF n \in DOMAIN store THEN <<store[n]>> ELSE None

\* the store with the entry of node n set
demo_put(store, n, node) ==
    [m \in DOMAIN store \cup {n} |-> IF m = n THEN node ELSE store[m]]

\* POST /api/nodes/<node_id>/taint; ok = FALSE: the cluster call raised,
\* as it does for a node the cluster does not have; demo mode answers 404
\* for a node_id without an entry before it changes anything
taint_node(n, key, ok) ==
    /\ IF available
       THEN IF ok
            THEN /\ n \in DOMAIN node_store
                 /\ Len(node_store[n].taints) < MaxTaints
                 /\ node_store' = [node_store EXCEPT ![n].taints =
                                     k8s_taint_node(@, TaintOf(key))]
                 /\ events' = add_event(events,
                        Event("action", "Node Tainted"))
            ELSE UNCHANGED <<node_store, events>>
       ELSE /\ ok
            /\ LET node == demo_get(node_store, n)
               IN  IF node = None
                   THEN UNCHANGED <<node_store, events>>
                   ELSE /\ node_store' = demo_put(node_store, n,
                               [node[1] EXCEPT !.taints =
                                  IF KeyCount(@, key) = 0
                                  THEN Append(@, TaintOf(key)) ELSE @])
                        /\ events' = add_event(events,
                               Event("action", "Node Tainted (Demo)"))
    /\ UNCHANGED <<fixed, logger_vars, study_vars, running, pc, idx, nodes_data,
                   audit_log>>

\* POST /api/nodes/<node_id>/remove-taint
remove_taint(n, key, ok) ==
    /\ IF available
       THEN IF ok
            THEN /\ n \in DOMAIN node_store
                 /\ node_store' = [node_store EXCEPT ![n].taints =
                                     k8s_remove_taint(@, key)]
                 /\ events' = add_event(events,
                        Event("action", "Taint Removed"))
            ELSE UNCHANGED <<node_store, events>>
       ELSE /\ ok
            /\ LET node == demo_get(node_store, n)
               IN  IF node = None
                   THEN UNCHANGED <<node_store, events>>
                   ELSE /\ node_store' = demo_put(node_store, n,
                               [node[1] EXCEPT !.taints =
                                  k8s_remove_taint(@, key)])
                        /\ events' = add_event(events,
                               Event("action", "Taint Removed (Demo)"))
    /\ UNCHANGED <<fixed, logger_vars, study_vars, running, pc, idx, nodes_data,
                   audit_log>>

\* POST /api/nodes/<node_id>/drain; with a cluster the handler passes
\* slo_aware to KubernetesManager.drain_node, which does not take it, so
\* the call raises before it reaches the cluster
drain_node(n) ==
    /\ IF available
       THEN UNCHANGED <<node_store, events>>
       ELSE LET node == demo_get(node_store, n)
            IN  IF node = None
                THEN UNCHANGED <<node_store, events>>
                ELSE /\ node_store' = demo_put(node_store, n,
                            [node[1] EXCEPT !.pods = {}])
                     /\ events' = add_event(events,
                            Event("action", "Node Drained (Demo)"))
    /\ UNCHANGED <<fixed, logger_vars, study_vars, running, pc, idx, nodes_data,
                   audit_log>>

\* ------------------------------------------------------ specifications
LoopStep(t) ==
    \/ tick_begin(t)
    \/ score_node(t)
    \/ \E ok \in BOOLEAN : taint_step(t, ok)
    \/ \E raised \in BOOLEAN, evicted \in SUBSET PodNames :
         migrate(t, raised, evicted)
    \/ sleep(t)

\* the service with its start and stop requests and explicit drains; a
\* start after a stop spawns a second loop thread beside a live first one
Next ==
    \/ \E t \in Threads : start(t)
    \/ stop
    \/ \E t \in Threads : LoopStep(t)
    \/ \E n \in Nodes : drain_node(n)

Spec == Init /\ [][Next]_vars

MainThread == "t1"

\* the service, started and never stopped, with the explicit taint,
\* remove-taint and drain requests of the API
NextApi ==
    \/ start(MainThread)
    \/ LoopStep(MainThread)
    \/ \E n \in Nodes, k \in TaintKeys, ok \in BOOLEAN : taint_node(n, k, ok)
    \/ \E n \in Nodes, k \in TaintKeys, ok \in BOOLEAN : remove_taint(n, k, ok)
    \/ \E n \in Nodes : drain_node(n)

SpecApi == Init /\ [][NextApi]_vars

\* the service started and stopped, and started again only once its loop
\* thread has ended; the interpreter schedules a live thread again and
\* again, and every call of the loop returns
NextStop ==
    \/ start(MainThread)
    \/ stop
    \/ LoopStep(MainThread)

SpecStop == Init /\ [][NextStop]_vars /\ WF_vars(LoopStep(MainThread))

\* --------------------------------------------- concurrent log_action calls
\* the entries the loop threads append
LoopEntries ==
    {AuditEntry("RISK_DETECTED", "node", "ml_engine", "success"),
     AuditEntry("TAINT", "node", "system", "success"),
     AuditEntry("MIGRATE", "pods", "system", "success")}

InitEntry == AuditEntry("SYSTEM_INIT", "cluster", "system", "demo_mode")

\* the logs the earlier, sequential calls can have left: the entry of the
\* initialisation first while the log has never been full, and the last
\* max_records entries once it has
BaseLogs ==
    {l \in UNION {[1..n -> LoopEntries \cup {InitEntry}] :
                     n \in (AuditCap - 1)..AuditCap} :
        /\ \A i \in 2..Len(l) : l[i] # InitEntry
        /\ Len(l) < AuditCap => l[1] = InitEntry}

\* two loop threads are alive (a start after a stop) and each of them is
\* about to call log_action
InitAudit ==
    /\ available = FALSE
    /\ running = TRUE
    /\ pc = [t \in Threads |-> "node"]
    /\ idx = [t \in Threads |-> 1]
    /\ nodes_data = [t \in Threads |-> [n \in Nodes |-> PodNames]]
    /\ node_store = [n \in Nodes |-> DemoNode]
    /\ events = <<Event("info", "Monitoring Service Started")>>
    /\ max_events = MaxEvents
    /\ max_records = AuditCap
    /\ InitLogger
    /\ cfg_weights = WEIGHTS
    /\ InitStudy
    /\ la_base \in BaseLogs
    /\ audit_log = la_base

service_vars == <<fixed, running, pc, idx, nodes_data, node_store, events>>

\* self.audit_log.append(entry): one call of the list, atomic
la_append(t, e) ==
    /\ la_pc[t] = "idle"
    /\ audit_log' = Append(audit_log, e)
    /\ la_entry' = [la_entry EXCEPT ![t] = e]
    /\ la_pc' = [la_pc EXCEPT ![t] = "check"]
    /\ UNCHANGED <<service_vars, study_vars, la_tmp, la_base>>

\* if len(self.audit_log) > self.max_records
la_len_check(t) ==
    /\ la_pc[t] = "check"
    /\ la_pc' = [la_pc EXCEPT ![t] =
                   IF Len(audit_log) > max_records THEN "slice" ELSE "done"]
    /\ UNCHANGED <<service_vars, study_vars, audit_log, la_entry, la_tmp, la_base>>

\* the right-hand side self.audit_log[-self.max_records:], a new list
la_slice(t) ==
    /\ la_pc[t] = "slice"
    /\ la_tmp' = [la_tmp EXCEPT ![t] = LastRecords(audit_log)]
    /\ la_pc' = [la_pc EXCEPT ![t] = "store"]
    /\ UNCHANGED <<service_vars, study_vars, audit_log, la_entry, la_base>>

\* the assignment self.audit_log = <the slice>
la_store(t) ==
    /\ la_pc[t] = "store"
    /\ audit_log' = la_tmp[t]
    /\ la_tmp' = [la_tmp EXCEPT ![t] = <<>>]
    /\ la_pc' = [la_pc EXCEPT ![t] = "done"]
    /\ UNCHANGED <<service_vars, study_vars, la_entry, la_base>>

NextAudit ==
    \E t \in Threads :
        \/ \E e \in LoopEntries : la_append(t, e)
        \/ la_len_check(t)
        \/ la_slice(t)
        \/ la_store(t)

SpecAudit == InitAudit /\ [][NextAudit]_vars

\* ------------------------------------------- the audit log on its own
\* a new AuditLogger of some capacity, before any call; the service is
\* constructed and not started
InitLog ==
    /\ available = FALSE
    /\ InitService
    /\ InitLogger
    /\ cfg_weights = WEIGHTS
    /\ la_base = <<>>
    /\ node_store = [n \in Nodes |-> DemoNode]
    /\ events = <<>>
    /\ max_events = MaxEvents
    /\ max_records \in 1..AuditCap
    /\ audit_log = <<>>
    /\ InitStudy

\* one call of log_action, made after the earlier ones have returned
audit_call(e) ==
    /\ Len(recorded) < MaxCalls
    /\ audit_log' = log_action(audit_log, e)
    /\ recorded' = Append(recorded, e)
    /\ UNCHANGED <<service_vars, logger_vars, ring_vars, stamp_vars,
                   calc_vars>>

NextLog == \E e \in LoopEntries : audit_call(e)

SpecLog == InitLog /\ [][NextLog]_vars

\* ------------------------------------------- the event log on its own
\* "if limit:", "if event_type:": None, 0 and "" do not count as given
Given(opt, empty) == opt # None /\ opt[1] # empty

\* the slice l[:k] of Python, a negative k counting from the end
Slice(l, k) ==
    IF k >= 0 THEN SubSeq(l, 1, Min(k, Len(l)))
    ELSE SubSeq(l, 1, Len(l) + k)

\* EventManager.get_events(event_type, limit)
get_events(evs, event_type, limit) ==
    LET filtered == IF Given(event_type, "")
                    THEN SelectSeq(evs, LAMBDA e : e.type = event_type[1])
                    ELSE evs
    IN  IF Given(limit, 0) THEN Slice(filtered, limit[1]) ELSE filtered

\* the events the callers add
EventKinds ==
    {Event("info", "Monitoring Service Started"),
     Event("risk", "Risk Detected"),
     Event("action", "Node Tainted")}

\* a new EventManager of some capacity, before any call
InitEvents ==
    /\ available = FALSE
    /\ InitService
    /\ InitLogger
    /\ cfg_weights = WEIGHTS
    /\ la_base = <<>>
    /\ node_store = [n \in Nodes |-> DemoNode]
    /\ events = <<>>
    /\ max_events \in 0..EventCap
    /\ max_records = MaxRecords
    /\ audit_log = <<>>
    /\ InitStudy

\* one call of add_event
event_call(e) ==
    /\ Len(recorded) < MaxCalls
    /\ events' = add_event(events, e)
    /\ recorded' = Append(recorded, e)
    /\ UNCHANGED <<fixed, running, pc, idx, nodes_data, node_store,
                   audit_log, logger_vars, ring_vars, stamp_vars,
                   calc_vars>>

NextEvents == \E e \in EventKinds : event_call(e)

SpecEvents == InitEvents /\ [][NextEvents]_vars

\* --------------------------------------- the analytics rings on their own
\* deque(maxlen=cap).appendleft
ring_append_left(ring, e, cap) ==
    SubSeq(<<e>> \o ring, 1, Min(Len(ring) + 1, cap))

\* deque(maxlen=cap).append: the entry goes last, the first one drops
ring_append(ring, e, cap) ==
    LET l == Append(ring, e)
    IN  SubSeq(l, Len(l) - Min(Len(l), cap) + 1, Len(l))

\* an entry of the global ring without its timestamp
MetricsEntry(node_id, metrics, risk_score) ==
    [node_id |-> node_id, metrics |-> metrics, risk_score |-> risk_score]

\* an entry of a per-node ring without its timestamp
HealthEntry(risk_score) == [risk_score |-> risk_score]

\* risk scores in hundredths, on both sides of the threshold 0.65
RiskScores == {0, 70}

\* a new AnalyticsEngine of some capacity, before any call
InitAnalytics ==
    /\ available = FALSE
    /\ InitService
    /\ InitLogger
    /\ cfg_weights = WEIGHTS
    /\ la_base = <<>>
    /\ node_store = [n \in Nodes |-> DemoNode]
    /\ events = <<>>
    /\ max_events = MaxEvents
    /\ max_records = MaxRecords
    /\ audit_log = <<>>
    /\ recorded = <<>>
    /\ InitRings
    /\ InitStamps
    /\ q_result = None
    /\ InitCalc
    /\ max_history \in 1..HistoryCap

\* AnalyticsEngine.record_metrics(node_id, metrics, risk_score)
record_metrics(node_id, metrics, risk_score) ==
    /\ Len(recorded) < MaxCalls
    /\ metrics_history' =
           ring_append(metrics_history,
                       MetricsEntry(node_id, metrics, risk_score), max_history)
    /\ node_health_history' =
           [n \in DOMAIN node_health_history \cup {node_id} |->
              IF n = node_id
              THEN ring_append(IF n \in DOMAIN node_health_history
                               THEN node_health_history[n] ELSE <<>>,
                               HealthEntry(risk_score), NodeHistoryLen)
              ELSE node_health_history[n]]
    /\ node_order' = IF node_id \in DOMAIN node_health_history
                     THEN node_order ELSE Append(node_order, node_id)
    /\ recorded' = Append(recorded,
                          MetricsEntry(node_id, metrics, risk_score))
    /\ UNCHANGED <<service_vars, audit_log, logger_vars, max_history,
                   stamp_vars, calc_vars>>

NextAnalytics ==
    \E n \in Nodes, m \in Samples, r \in RiskScores : record_metrics(n, m, r)

SpecAnalytics == InitAnalytics /\ [][NextAnalytics]_vars

\* --------------------------------------- the target search on its own
\* the names of a cluster of three nodes, smallest node_id first
TargetNodes == <<"node-01", "node-02", "node-03">>

\* the position of a name in the order of the node_ids
Rank(name) == CHOOSE i \in 1..Len(TargetNodes) : TargetNodes[i] = name

\* the orders in which the backend may list the three nodes
Listings ==
    {l \in [1..Len(TargetNodes) -> 1..Len(TargetNodes)] :
        \A i, j \in 1..Len(TargetNodes) : i # j => l[i] # l[j]}

\* a cluster in some state, listed in some order, and a source node
InitTarget ==
    /\ available = TRUE
    /\ InitService
    /\ InitLogger
    /\ cfg_weights = WEIGHTS
    /\ la_base = <<>>
    /\ node_store \in ClusterNodes
    /\ events = <<>>
    /\ max_events = MaxEvents
    /\ max_records = MaxRecords
    /\ audit_log = <<AuditEntry("SYSTEM_INIT", "cluster", "system",
                                "success")>>
    /\ recorded = <<>>
    /\ InitRings
    /\ InitStamps
    /\ q_result = None
    /\ max_history = HistoryCap
    /\ \E order \in Listings,
          tainted \in [1..Len(TargetNodes) -> BOOLEAN],
          pods \in [1..Len(TargetNodes) -> 0..1] :
          tg_listing = [i \in 1..Len(TargetNodes) |->
                          [name |-> TargetNodes[order[i]],
                           tainted |-> tainted[i], pods |-> pods[i]]]
    /\ tg_source \in {TargetNodes[i] : i \in 1..Len(TargetNodes)}
    /\ tg_result = "pending"
    /\ sc_input = NodeData(0, 0, 0, 0, 0, 0, "ok")
    /\ sc_health = None
    /\ sc_pred = None
    /\ sc_weights = WEIGHTS

\* KubernetesManager.find_best_target_node(tg_source) on the listing;
\* raised: list_node raised, which the method turns into None
find_target(raised) ==
    /\ tg_result = "pending"
    /\ tg_result' = IF raised THEN "none"
                    ELSE BestFrom(tg_listing, 1, tg_source, "none", 0)
    /\ UNCHANGED <<service_vars, audit_log, logger_vars, recorded, ring_vars, stamp_vars,
                   tg_listing, tg_source, score_vars, query_vars>>

NextTarget == \E raised \in BOOLEAN : find_target(raised)

SpecTarget == InitTarget /\ [][NextTarget]_vars

\* ------------------------------------------- a backend that hangs
\* a call of the loop thread to the cluster never returns: list_node at
\* the start of the tick, taint_node, or find_best_target_node and the
\* evictions of drain_node; no call is given a timeout, so the thread
\* waits in it from then on
backend_hangs(t) ==
    /\ available
    /\ \/ pc[t] = "check" /\ loop_condition
       \/ pc[t] = "taint"
       \/ /\ pc[t] = "settle"
          /\ nodes_data[t][CurNode(t)] # {}
    /\ pc' = [pc EXCEPT ![t] = "blocked"]
    /\ UNCHANGED <<fixed, logger_vars, study_vars, running, idx, nodes_data,
                   node_store, events, audit_log>>

\* the service started and never stopped, on a backend whose calls may
\* hang; the interpreter keeps scheduling the loop thread
NextHang ==
    \/ start(MainThread)
    \/ LoopStep(MainThread)
    \/ backend_hangs(MainThread)

SpecHang == Init /\ [][NextHang]_vars /\ WF_vars(LoopStep(MainThread))

\* --------------------------------------------- the predictor on its own
\* self.risk_threshold = 0.65, in hundredths like every risk score
risk_threshold == 65

\* what is wrong with a node_data: "text" (a metric is a string) and
\* "not_a_dict" make the feature extraction raise, "nan" (a metric is
\* NaN) makes the model raise, "unformattable" (the metrics are numbers
\* that take no format ".1f") makes the derivation of the factors raise
\* when it quotes one of them
Forms == {"ok", "text", "not_a_dict", "nan", "unformattable"}

\* a metric is over the threshold of its factor, whose text quotes it
QuotesMetric(node_data) ==
    \/ node_data.cpu_usage > 80
    \/ node_data.memory_usage > 85
    \/ node_data.temperature > 75
    \/ node_data.network_latency > 30
    \/ node_data.disk_io > 70

\* the step of the try block that raises on a node_data, "none" if none
FaultStage(node_data) ==
    CASE node_data.form \in {"text", "not_a_dict"} -> "extract"
      [] node_data.form = "nan" -> "model"
      [] node_data.form = "unformattable" /\ QuotesMetric(node_data)
           -> "factors"
      [] OTHER -> "none"

\* a sequence without the entries that are None
Compact(opts) ==
    LET F[i \in 0..Len(opts)] ==
          IF i = 0 THEN <<>> ELSE F[i - 1] \o opts[i]
    IN  F[Len(opts)]

\* the factors of the metrics at or over their thresholds
MetricFactors_inclusive(node_data) ==
    Compact(<<IF node_data.cpu_usage >= 80 THEN <<"High CPU">> ELSE None,
              IF node_data.memory_usage >= 85
              THEN <<"Memory Pressure">> ELSE None,
              IF node_data.temperature >= 75
              THEN <<"High Temperature">> ELSE None,
              IF node_data.network_latency >= 30
              THEN <<"Network Latency">> ELSE None,
              IF node_data.disk_io >= 70 THEN <<"High Disk I/O">> ELSE None,
              IF node_data.pods >= 15
              THEN <<"High Pod Density">> ELSE None>>)

\* the factors of the metrics over their thresholds, in the order of the
\* checks, without the values they quote
MetricFactors(node_data) ==
    Compact(<<IF node_data.cpu_usage > 80 THEN <<"High CPU">> ELSE None,
              IF node_data.memory_usage > 85
              THEN <<"Memory Pressure">> ELSE None,
              IF node_data.temperature > 75
              THEN <<"High Temperature">> ELSE None,
              IF node_data.network_latency > 30
              THEN <<"Network Latency">> ELSE None,
              IF node_data.disk_io > 70 THEN <<"High Disk I/O">> ELSE None,
              IF node_data.pods > 15
              THEN <<"High Pod Density">> ELSE None>>)

\* the derivation without the generic factor
identify_risk_factors_no_generic(node_data, risk_score) ==
    MetricFactors(node_data)

\* MLDecisionEngine._identify_risk_factors
identify_risk_factors(node_data, risk_score) ==
    LET factors == MetricFactors(node_data)
    IN  IF risk_score > risk_threshold /\ factors = <<>>
        THEN <<"Anomalous Pattern Detected">>
        ELSE factors

\* an assessment; raised: the call ended in an exception instead
Assessment(raised, is_at_risk, risk_score, risk_factors, confidence) ==
    [raised |-> raised, is_at_risk |-> is_at_risk, risk_score |-> risk_score,
     risk_factors |-> risk_factors, confidence |-> confidence]

\* the dictionary returned by the except branch
SafeDefault == Assessment(FALSE, FALSE, 0, <<"prediction_error">>, 0)

\* a handler that catches what the feature extraction raises only
caught_extract_only(stage) == stage = "extract"

\* except Exception: whatever step of the try block raised
caught(stage) == TRUE

\* MLDecisionEngine.predict_degradation; risk_score: the probability the
\* model gives for the features of node_data
predict_degradation(node_data, risk_score) ==
    LET stage == FaultStage(node_data)
    IN  IF stage = "none"
        THEN Assessment(FALSE, risk_score > risk_threshold, risk_score,
                        identify_risk_factors(node_data, risk_score),
                        Min(100, risk_score * 2))
        ELSE IF caught(stage) THEN SafeDefault
             ELSE Assessment(TRUE, FALSE, 0, <<>>, 0)

\* the probabilities the model may give, around the threshold
ModelScores == {0, 50, 65, 66, 100}

\* node_data on both sides of the threshold of every factor, and the
\* node_data of the scenario
InitPredict ==
    /\ available = FALSE
    /\ InitService
    /\ InitLogger
    /\ cfg_weights = WEIGHTS
    /\ la_base = <<>>
    /\ node_store = [n \in Nodes |-> DemoNode]
    /\ events = <<>>
    /\ max_events = MaxEvents
    /\ max_records = MaxRecords
    /\ audit_log = <<>>
    /\ recorded = <<>>
    /\ InitRings
    /\ InitStamps
    /\ q_result = None
    /\ max_history = HistoryCap
    /\ tg_listing = <<>>
    /\ tg_source = "none"
    /\ tg_result = "pending"
    /\ \/ \E cpu \in {80, 81}, mem \in {85, 86}, temp \in {75, 76},
             lat \in {30, 31}, disk \in {70, 71}, pods \in {15, 16},
             form \in Forms :
             sc_input = NodeData(cpu, mem, temp, lat, disk, pods, form)
       \/ sc_input = NodeData(92, 91, 80, 40, 85, 0, "ok")
    /\ sc_health = None
    /\ sc_pred = None
    /\ sc_weights = WEIGHTS

\* prediction = ml_engine.predict_degradation(node_data)
predict(risk_score) ==
    /\ sc_pred = None
    /\ sc_pred' = <<predict_degradation(sc_input, risk_score)>>
    /\ UNCHANGED <<service_vars, audit_log, logger_vars, recorded, ring_vars, stamp_vars,
                   target_vars, sc_input, sc_health, sc_weights, query_vars>>

NextPredict == \E risk_score \in ModelScores : predict(risk_score)

SpecPredict == InitPredict /\ [][NextPredict]_vars

\* ----------------------------------------- the health scorer on its own
\* a component score from the unclamped distance to 100
calculate_component_health_linear(metric_name, value) == 100 - value

\* HealthScorer.calculate_component_health
calculate_component_health(metric_name, value) ==
    LET thresholds == THRESHOLDS[metric_name]
    IN  IF value >= thresholds.critical THEN 0
        ELSE IF value >= thresholds.warning THEN 25
        ELSE IF value >= thresholds.ok THEN 50
        ELSE 100

\* the component scores of a node_data; a NaN cpu_usage ("nan") compares
\* false with every threshold
component_scores(node_data) ==
    [cpu |-> IF node_data.form = "nan" THEN 100
             ELSE calculate_component_health("cpu", node_data.cpu_usage),
     memory |-> calculate_component_health("memory", node_data.memory_usage),
     temperature |->
         calculate_component_health("temperature", node_data.temperature),
     latency |->
         calculate_component_health("latency", node_data.network_latency),
     disk_io |-> calculate_component_health("disk_io", node_data.disk_io)]

\* sum(scores[key] * cls.WEIGHTS[key] for key in scores), in hundredths
WeightedSum(scores, weights) ==
    scores.cpu * weights.cpu + scores.memory * weights.memory
        + scores.temperature * weights.temperature
        + scores.latency * weights.latency
        + scores.disk_io * weights.disk_io

\* round(overall, 1) of a value in hundredths, in tenths: to the nearest
\* tenth, a half to the even one
round1(overall) ==
    LET q == overall \div 10
        r == overall % 10
    IN  IF r > 5 \/ (r = 5 /\ q % 2 = 1) THEN q + 1 ELSE q

\* the status with the bounds left out of their bands
status_of_strict(overall) ==
    IF overall > 8000 THEN "healthy"
    ELSE IF overall > 5000 THEN "degraded"
    ELSE "critical"

\* the status of a weighted sum in hundredths
status_of(overall) ==
    IF overall >= 8000 THEN "healthy"
    ELSE IF overall >= 5000 THEN "degraded"
    ELSE "critical"

\* HealthScorer.calculate_overall_health; overall_score in tenths
calculate_overall_health(node_data, weights) ==
    LET scores == component_scores(node_data)
        overall == WeightedSum(scores, weights)
    IN  [overall_score |-> round1(overall),
         status |-> status_of(overall),
         component_scores |-> scores]

\* the weight sets ConfigManager.validate accepts (0.99 <= sum <= 1.01)
\* next to the defaults
WeightSets ==
    {WEIGHTS, [WEIGHTS EXCEPT !.cpu = 26], [WEIGHTS EXCEPT !.cpu = 24]}

WeightTotal(weights) ==
    weights.cpu + weights.memory + weights.temperature + weights.latency
        + weights.disk_io

\* metrics in every band of their thresholds, below 0 and above 100
InitHealth ==
    /\ available = FALSE
    /\ InitService
    /\ InitLogger
    /\ cfg_weights = WEIGHTS
    /\ la_base = <<>>
    /\ node_store = [n \in Nodes |-> DemoNode]
    /\ events = <<>>
    /\ max_events = MaxEvents
    /\ max_records = MaxRecords
    /\ audit_log = <<>>
    /\ recorded = <<>>
    /\ InitRings
    /\ InitStamps
    /\ q_result = None
    /\ max_history = HistoryCap
    /\ tg_listing = <<>>
    /\ tg_source = "none"
    /\ tg_result = "pending"
    /\ \E cpu \in {-10, 50, 75, 92, 150}, mem \in {-10, 60, 80, 91, 150},
          temp \in {-10, 50, 80, 85, 150}, lat \in {-5, 10, 40, 50, 150},
          disk \in {-10, 40, 70, 85, 150}, form \in {"ok", "nan"} :
          sc_input = NodeData(cpu, mem, temp, lat, disk, 0, form)
    /\ sc_weights \in WeightSets
    /\ sc_health = None
    /\ sc_pred = None

\* health = health_scorer.calculate_overall_health(node_data)
assess_health ==
    /\ sc_health = None
    /\ sc_health' = <<calculate_overall_health(sc_input, sc_weights)>>
    /\ UNCHANGED <<service_vars, audit_log, logger_vars, recorded, ring_vars, stamp_vars,
                   target_vars, sc_input, sc_pred, sc_weights, query_vars>>

NextHealth == assess_health

SpecHealth == InitHealth /\ [][NextHealth]_vars

\* ------------------------------------------- the scorer called repeatedly
\* a call whose score is smoothed with the score of the call before
health_call_smoothed(node_data, weights) ==
    LET r == calculate_overall_health(node_data, weights)
    IN  [node_data |-> node_data, weights |-> weights,
         result |-> IF sc_health = None THEN r
                    ELSE [r EXCEPT !.overall_score =
                              (r.overall_score
                                   + sc_health[1].overall_score) \div 2]]

\* a call of calculate_overall_health with all it leaves behind: the
\* node_data read with .get only, cls.WEIGHTS read only, and the result
\* built from fresh scores
health_call(node_data, weights) ==
    [node_data |-> node_data, weights |-> weights,
     result |-> calculate_overall_health(node_data, weights)]

\* the node_data scored again and again: idle, the scenario, out of
\* range, a NaN cpu_usage
PureInputs ==
    {NodeData(0, 0, 0, 0, 0, 0, "ok"), NodeData(92, 91, 80, 40, 85, 0, "ok"),
     NodeData(150, -10, 50, 10, 40, 0, "ok"),
     NodeData(75, 80, 50, 10, 40, 0, "nan")}

InitPure ==
    /\ available = FALSE
    /\ InitService
    /\ InitLogger
    /\ cfg_weights = WEIGHTS
    /\ la_base = <<>>
    /\ node_store = [n \in Nodes |-> DemoNode]
    /\ events = <<>>
    /\ max_events = MaxEvents
    /\ max_records = MaxRecords
    /\ audit_log = <<>>
    /\ recorded = <<>>
    /\ InitRings
    /\ InitStamps
    /\ q_result = None
    /\ max_history = HistoryCap
    /\ tg_listing = <<>>
    /\ tg_source = "none"
    /\ tg_result = "pending"
    /\ sc_input \in PureInputs
    /\ sc_health = None
    /\ sc_pred = None
    /\ sc_weights = WEIGHTS

\* health_score = health_scorer.calculate_overall_health(node_data), for
\* the node_data of any node of any tick
rescore(node_data) ==
    /\ Len(recorded) < MaxCalls
    /\ LET call == health_call(node_data, sc_weights)
       IN  /\ sc_input' = call.node_data
           /\ sc_weights' = call.weights
           /\ sc_health' = <<call.result>>
           /\ recorded' = Append(recorded,
                                 [given |-> node_data,
                                  left |-> call.node_data,
                                  weights |-> call.weights,
                                  result |-> call.result])
    /\ UNCHANGED <<service_vars, audit_log, logger_vars, ring_vars, stamp_vars,
                   target_vars, sc_pred, query_vars>>

NextPure ==
    \/ \E node_data \in PureInputs : rescore(node_data)
    \/ \E risk_score \in ModelScores : predict(risk_score)

SpecPure == InitPure /\ [][NextPure]_vars

\* ------------------------------------- the queries of the history alone
\* everything but the component under study is idle and empty
InitIdle ==
    /\ available = FALSE
    /\ InitService
    /\ InitLogger
    /\ cfg_weights = WEIGHTS
    /\ la_base = <<>>
    /\ node_store = [n \in Nodes |-> DemoNode]
    /\ events = <<>>
    /\ max_events = MaxEvents
    /\ max_records = MaxRecords
    /\ recorded = <<>>
    /\ InitCalc

InitAside ==
    /\ InitIdle
    /\ q_result = None

\* the sum of a sequence of numbers
SumSeq(ys) ==
    LET F[i \in 0..Len(ys)] == IF i = 0 THEN 0 ELSE F[i - 1] + ys[i]
    IN  F[Len(ys)]

\* the whole list instead of its last k entries
LastK_all(l, k) == l

\* l[-k:] for k > 0
LastK(l, k) == SubSeq(l, Len(l) - Min(k, Len(l)) + 1, Len(l))

\* np.polyfit(range(len(ys)), ys, 1)[0], the least-squares slope, as the
\* fraction SlopeNum / SlopeDen in hundredths per sample
SlopeNum(ys) ==
    LET n == Len(ys)
    IN  n * SumSeq([i \in 1..n |-> (i - 1) * ys[i]])
            - SumSeq([i \in 1..n |-> i - 1]) * SumSeq(ys)

SlopeDen(ys) ==
    LET n == Len(ys)
    IN  n * SumSeq([i \in 1..n |-> (i - 1) * (i - 1)])
            - SumSeq([i \in 1..n |-> i - 1]) * SumSeq([i \in 1..n |-> i - 1])

\* AnalyticsEngine.get_predictions(node_id), the 'prediction' of the
\* answer; trend > 0.05 is SlopeNum > 5 * SlopeDen in hundredths
get_predictions(node_id) ==
    IF node_id \notin DOMAIN node_health_history
    THEN "insufficient_data"
    ELSE LET history == LastK(node_health_history[node_id], 20)
         IN  IF Len(history) < 5 THEN "insufficient_data"
             ELSE LET risk_scores ==
                          [i \in 1..Len(history) |-> history[i].risk_score]
                  IN  IF SlopeNum(risk_scores) > 5 * SlopeDen(risk_scores)
                      THEN "degrading"
                      ELSE IF SlopeNum(risk_scores)
                                  < (-5) * SlopeDen(risk_scores)
                           THEN "improving"
                           ELSE "stable"

\* the sample sequences of the node queried: all of up to TrendLen
\* samples over three scores, the ramp 0.1 .. 0.9, and twenty samples of
\* 0.0 before ten of 1.0
TrendLen == 6

TrendInputs ==
    UNION {[1..n -> {0, 10, 20}] : n \in 0..TrendLen}
        \cup {[i \in 1..9 |-> 10 * i]}
        \cup {[i \in 1..30 |-> IF i <= 20 THEN 0 ELSE 100]}

\* the rounding of polyfit decides a slope of exactly 0.05 or -0.05:
\* such sequences are left out
OffBoundary(ys) ==
    LET w == LastK(ys, 20)
    IN  Len(w) >= 2 => /\ SlopeNum(w) # 5 * SlopeDen(w)
                       /\ SlopeNum(w) # (-5) * SlopeDen(w)

\* an engine that knows no node, or node-01 with some history
InitTrend ==
    /\ InitAside
    /\ audit_log = <<>>
    /\ metrics_history = <<>>
    /\ InitStamps
    /\ max_history = HistoryCap
    /\ \/ node_health_history = <<>> /\ node_order = <<>>
       \/ \E ys \in TrendInputs :
             /\ OffBoundary(ys)
             /\ node_health_history =
                    [n \in {NodeList[1]} |->
                       [i \in 1..Len(ys) |-> HealthEntry(ys[i])]]
             /\ node_order = <<NodeList[1]>>

\* analytics.get_predictions(node_id)
query_trend(node_id) ==
    /\ Len(recorded) < MaxCalls
    /\ q_result' = <<[node_id |-> node_id,
                      prediction |-> get_predictions(node_id)]>>
    /\ recorded' = Append(recorded, q_result'[1])
    /\ UNCHANGED <<service_vars, audit_log, logger_vars, ring_vars, stamp_vars,
                   target_vars, score_vars>>

NextTrend == \E node_id \in Nodes : query_trend(node_id)

SpecTrend == InitTrend /\ [][NextTrend]_vars

\* -------------------------------------------- the ranking of the nodes
\* the average risk of a node as the fraction total / count
NodeRisk(node_id, recent) ==
    [node_id |-> node_id,
     total |-> SumSeq([i \in 1..Len(recent) |-> recent[i].risk_score]),
     count |-> Len(recent)]

\* node_risks: for every key of the dictionary, in the order of the keys,
\* that has samples, the average of its last 10
node_risks ==
    LET F[i \in 0..Len(node_order)] ==
          IF i = 0 THEN <<>>
          ELSE LET history == node_health_history[node_order[i]]
               IN  IF history # <<>>
                   THEN Append(F[i - 1],
                               NodeRisk(node_order[i], LastK(history, 10)))
                   ELSE F[i - 1]
    IN  F[Len(node_order)]

\* a.total / a.count < b.total / b.count
LowerRisk(a, b) == a.total * b.count < b.total * a.count

\* sorted(items, key=average, reverse=True): a stable sort, so items of
\* equal average stay in the order they had
SortedByRisk(items) ==
    LET Insert(done, x) ==
          LET k == Cardinality({i \in 1..Len(done) : ~LowerRisk(done[i], x)})
          IN  SubSeq(done, 1, k) \o <<x>> \o SubSeq(done, k + 1, Len(done))
        F[i \in 0..Len(items)] ==
          IF i = 0 THEN <<>> ELSE Insert(F[i - 1], items[i])
    IN  F[Len(items)]

\* AnalyticsEngine.get_top_risk_nodes(limit), limit >= 0
get_top_risk_nodes(limit) ==
    LET sorted_nodes == SortedByRisk(node_risks)
    IN  SubSeq(sorted_nodes, 1, Min(limit, Len(sorted_nodes)))

\* the limits asked for: none, one, all, the default
Limits == {0, 1, 2, 5}

InitTop ==
    /\ InitAside
    /\ audit_log = <<>>
    /\ InitRings
    /\ InitStamps
    /\ max_history = HistoryCap

\* analytics_engine.get_top_risk_nodes(limit)
query_top(limit) ==
    /\ q_result' = <<[limit |-> limit, nodes |-> get_top_risk_nodes(limit)]>>
    /\ UNCHANGED <<service_vars, audit_log, logger_vars, recorded, ring_vars, stamp_vars,
                   target_vars, score_vars>>

NextTop ==
    \/ \E n \in Nodes, r \in RiskScores : record_metrics(n, "healthy", r)
    \/ \E limit \in Limits : query_top(limit)

SpecTop == InitTop /\ [][NextTop]_vars

\* ---------------------------------------- the statistics of the ring
\* len([s for s in risk_scores if s > 0.75]), scores in hundredths
critical_events(risk_scores) ==
    Cardinality({i \in 1..Len(risk_scores) : risk_scores[i] > 75})

\* the largest and the smallest of a non-empty sequence of numbers
MaxOf(ys) == CHOOSE y \in {ys[i] : i \in 1..Len(ys)} :
                 \A i \in 1..Len(ys) : ys[i] <= y

MinOf(ys) == CHOOSE y \in {ys[i] : i \in 1..Len(ys)} :
                 \A i \in 1..Len(ys) : ys[i] >= y

\* AnalyticsEngine.get_risk_statistics; average_risk is the fraction
\* total / count, and std_dev is given by its square, the population
\* variance, as the fraction var_num / (count * count)
get_risk_statistics ==
    IF metrics_history = <<>>
    THEN [total |-> 0, count |-> 1, max_risk |-> 0, min_risk |-> 0,
          var_num |-> 0, critical_events |-> 0, total_events |-> 0]
    ELSE LET risk_scores ==
                 [i \in 1..Len(metrics_history) |->
                    metrics_history[i].risk_score]
             n == Len(risk_scores)
         IN  [total |-> SumSeq(risk_scores), count |-> n,
              max_risk |-> MaxOf(risk_scores),
              min_risk |-> MinOf(risk_scores),
              var_num |-> n * SumSeq([i \in 1..n |->
                                        risk_scores[i] * risk_scores[i]])
                            - SumSeq(risk_scores) * SumSeq(risk_scores),
              critical_events |-> critical_events(risk_scores),
              total_events |-> n]

\* risk scores under, at and over 0.75
CriticalScores == {0, 75, 76}

\* stats = analytics_engine.get_risk_statistics()
query_stats ==
    /\ q_result' = <<get_risk_statistics>>
    /\ UNCHANGED <<service_vars, audit_log, logger_vars, recorded, ring_vars, stamp_vars,
                   target_vars, score_vars>>

NextStats ==
    \/ \E n \in Nodes, r \in CriticalScores : record_metrics(n, "healthy", r)
    \/ query_stats

SpecStats == InitTop /\ [][NextStats]_vars

\* ------------------------------------- the statistics of the audit log
\* the positions of a log whose entry has a value in a field
CountOf(log, field, value) ==
    Cardinality({i \in 1..Len(log) : log[i][field] = value})

\* AuditLogger.get_statistics: None for the {} of an empty log, else the
\* counts and failure_rate = (failures / len(audit_log)) * 100 as the
\* fraction rate_num / rate_den
get_statistics ==
    IF audit_log = <<>> THEN None
    ELSE LET failures == CountOf(audit_log, "status", "failure")
         IN  <<[total_actions |-> Len(audit_log),
                action_breakdown |->
                    [a \in {audit_log[i].action : i \in 1..Len(audit_log)} |->
                       CountOf(audit_log, "action", a)],
                total_failures |-> failures,
                rate_num |-> failures * 100,
                rate_den |-> Len(audit_log)]>>

\* the entries a caller of log_action may give: those of the loop, and
\* a failed action (status is 'success', 'failure' or 'pending')
StatEntries ==
    LoopEntries \cup {AuditEntry("TAINT", "node", "system", "failure")}

\* stats = audit_logger.get_statistics()
query_audit ==
    /\ q_result' = <<[stats |-> get_statistics]>>
    /\ UNCHANGED <<service_vars, audit_log, logger_vars, recorded, ring_vars, stamp_vars,
                   target_vars, score_vars>>

NextAuditStats ==
    \/ \E e \in StatEntries : audit_call(e)
    \/ query_audit

SpecAuditStats == InitLog /\ [][NextAuditStats]_vars

\* ------------------------------------------- the start of the service
\* ConfigManager.validate on the weights: 0.99 <= weight_sum <= 1.01
validate(weights) ==
    WeightTotal(weights) >= 99 /\ WeightTotal(weights) <= 101

\* the weights a config.json may give: the defaults, a sum of 1.01, of
\* 1.50 and of 0.75
ConfigWeights ==
    WeightSets \cup {[WEIGHTS EXCEPT !.cpu = 75], [WEIGHTS EXCEPT !.cpu = 0]}

\* the state initialize_components leaves, whatever weights are configured:
\* it builds the components and validates nothing
InitStartup ==
    /\ available \in BOOLEAN
    /\ InitService
    /\ la_pc = [t \in Threads |-> "idle"]
    /\ la_entry = [t \in Threads |-> NoEntry]
    /\ la_tmp = [t \in Threads |-> <<>>]
    /\ cfg_weights \in ConfigWeights
    /\ InitStudy
    /\ la_base = <<>>
    /\ IF available
       THEN node_store \in ClusterNodes
       ELSE node_store = [n \in Nodes |-> DemoNode]
    /\ events = <<>>
    /\ max_events = MaxEvents
    /\ max_records = MaxRecords
    /\ audit_log = <<AuditEntry("SYSTEM_INIT", "cluster", "system",
                                IF available THEN "success" ELSE "demo_mode")>>

SpecStartup == InitStartup /\ [][NextStop]_vars

\* ----------------------------------------- the node requests on their own
\* the explicit requests on the nodes, the loop not running
NextNodeApi ==
    \/ \E n \in Nodes, k \in TaintKeys, ok \in BOOLEAN : taint_node(n, k, ok)
    \/ \E n \in Nodes, k \in TaintKeys, ok \in BOOLEAN : remove_taint(n, k, ok)
    \/ \E n \in Nodes : drain_node(n)

SpecNodeApi == Init /\ [][NextNodeApi]_vars

\* ------------------------------------------- drains beside the loop
\* the count taken after the pods have been dropped
drain_response_after(n) ==
    IF available THEN [status |-> "error", evicted |-> 0]
    ELSE IF demo_get(node_store, n) = None
         THEN [status |-> "not_found", evicted |-> 0]
         ELSE [status |-> "demo_drained", evicted |-> 0]

\* what POST /api/nodes/<node_id>/drain answers in the state it is made
\* in: with a cluster the error of the call that raises, in demo mode
\* 404 for a node_id without an entry, else evicted = len(node['pods']),
\* taken before the pods are dropped
drain_response(n) ==
    IF available THEN [status |-> "error", evicted |-> 0]
    ELSE IF demo_get(node_store, n) = None
         THEN [status |-> "not_found", evicted |-> 0]
         ELSE [status |-> "demo_drained",
               evicted |-> Cardinality(node_store[n].pods)]

\* the service started and stopped, with drain requests at any time
NextDrain ==
    \/ start(MainThread)
    \/ stop
    \/ LoopStep(MainThread)
    \/ \E n \in Nodes : drain_node(n)

SpecDrain == Init /\ [][NextDrain]_vars

\* ------------------------------------- the assessments of a node in a row
\* one node of the tick with self.history.append(...) kept: the node and
\* the prediction of every assessment that did not raise, in order; a
\* step that raises before the append leaves the history as it is
score_recorded(t) ==
    /\ Len(recorded) < MaxCalls
    /\ \E fault \in BOOLEAN, is_at_risk \in BOOLEAN, status \in Statuses :
         /\ assess(t, fault, is_at_risk, status)
         /\ recorded' = IF fault THEN recorded
                        ELSE Append(recorded, [node |-> CurNode(t),
                                               is_at_risk |-> is_at_risk])
    /\ UNCHANGED <<ring_vars, stamp_vars, calc_vars>>

\* the service started and stopped, every assessment kept in the history
NextEpisode ==
    \/ start(MainThread)
    \/ stop
    \/ tick_begin(MainThread)
    \/ score_recorded(MainThread)
    \/ \E ok \in BOOLEAN : taint_step(MainThread, ok)
    \/ \E raised \in BOOLEAN, evicted \in SUBSET PodNames :
         migrate(MainThread, raised, evicted)
    \/ sleep(MainThread)

\* time.sleep returns: a sleeping loop thread wakes up
SpecEpisode ==
    Init /\ [][NextEpisode]_vars /\ WF_vars(sleep(MainThread))

\* ------------------------------------------- the count of a migration
\* evicted_count of _migrate_workloads, written as pods_moved to the
\* audit entry and the event and added to the workloads_moved counter:
\* with a cluster what drain_node returned, in demo mode len(pods) of the
\* snapshot
evicted_count(t, evicted) ==
    IF available THEN Cardinality(evicted)
    ELSE Cardinality(nodes_data[t][CurNode(t)])

\* ----------------------------------- KubernetesManager.drain_node alone
\* the namespaces whose pods drain_node skips
SystemNamespaces == {"kube-system", "kube-public", "kube-node-lease"}

Namespaces == SystemNamespaces \cup {"default"}

\* what create_namespaced_pod_eviction does for a pod: it returns, it
\* raises ApiException, or it raises another exception (the connection
\* is lost, the call times out)
Evictions == {"evicted", "api_exception", "exception"}

MaxPodList == 3

\* the pods list_pod_for_all_namespaces returns for the node, each with
\* its namespace and with what its eviction will do
PodLists ==
    UNION {[1..k -> [namespace : Namespaces, eviction : Evictions]] :
             k \in 0..MaxPodList}

\* the loop over pods.items from pod i on; acc: the pods for which the
\* eviction was called, the pods evicted, evicted_count
RECURSIVE DrainFrom(_, _, _)
DrainFrom(pods, i, acc) ==
    IF i > Len(pods)
    THEN [raised |-> FALSE, attempted |-> acc.attempted,
          evicted |-> acc.evicted, returned |-> <<acc.evicted_count>>]
    ELSE IF pods[i].namespace \in SystemNamespaces
         THEN DrainFrom(pods, i + 1, acc)
         ELSE LET tried == acc.attempted \cup {i}
              IN  CASE pods[i].eviction = "evicted" ->
                         DrainFrom(pods, i + 1,
                             [attempted |-> tried,
                              evicted |-> acc.evicted \cup {i},
                              evicted_count |-> acc.evicted_count + 1])
                    [] pods[i].eviction = "api_exception" ->
                         DrainFrom(pods, i + 1,
                             [acc EXCEPT !.attempted = tried])
                    [] OTHER ->
                         [raised |-> TRUE, attempted |-> tried,
                          evicted |-> acc.evicted, returned |-> None]

\* KubernetesManager.drain_node on the pods listed: the evicted_count it
\* returns, or None when it raises
k8s_drain_node(pods) ==
    DrainFrom(pods, 1,
              [attempted |-> {}, evicted |-> {}, evicted_count |-> 0])

\* a node with any pod list, drain_node about to be called on it
InitDrainNode ==
    /\ InitIdle
    /\ audit_log = <<>>
    /\ InitRings
    /\ InitStamps
    /\ max_history = HistoryCap
    /\ \E pods \in PodLists : q_result = <<[pods |-> pods, result |-> None]>>

\* the call of drain_node on the pod list
drain_call ==
    /\ q_result[1].result = None
    /\ q_result' = <<[q_result[1] EXCEPT
                        !.result = <<k8s_drain_node(q_result[1].pods)>>]>>
    /\ UNCHANGED <<service_vars, audit_log, logger_vars, recorded, ring_vars, stamp_vars,
                   target_vars, score_vars>>

NextDrainNode == drain_call

SpecDrainNode == InitDrainNode /\ [][NextDrainNode]_vars

\* --------------------------------------------- the queries with a limit
\* the slice l[-k:] of Python: the whole list for k = 0, the last k
\* entries for k > 0, the list without its first -k entries for k < 0
SliceLast(l, k) ==
    IF k = 0 THEN l
    ELSE IF k > 0 THEN SubSeq(l, Len(l) - Min(k, Len(l)) + 1, Len(l))
         ELSE SubSeq(l, Min(-k, Len(l)) + 1, Len(l))

\* AuditLogger.get_audit_trail(action_type, resource, limit); a filter
\* that is None or "" is not applied
get_audit_trail(log, action_type, resource, limit) ==
    LET by_action == IF Given(action_type, "")
                     THEN SelectSeq(log, LAMBDA r : r.action = action_type[1])
                     ELSE log
        by_resource == IF Given(resource, "")
                       THEN SelectSeq(by_action,
                                      LAMBDA r : r.resource = resource[1])
                       ELSE by_action
    IN  SliceLast(by_resource, limit)

\* AuditLogger.get_user_activity(actor, limit)
get_user_activity(log, actor, limit) ==
    SliceLast(SelectSeq(log, LAMBDA r : r.actor = actor), limit)

\* the filters a caller may give
ActionFilters == {None, <<"TAINT">>}

ResourceFilters == {None, <<"node">>}

TypeFilters == {None, <<"risk">>}

Actors == {"system", "ml_engine"}

\* event_manager.get_events(event_type, limit=limit)
query_events(event_type, limit) ==
    /\ q_result' = <<[query |-> "get_events", filter |-> <<event_type>>,
                      limit |-> limit,
                      answer |-> get_events(events, event_type, <<limit>>)]>>
    /\ UNCHANGED <<service_vars, audit_log, logger_vars, recorded, ring_vars, stamp_vars,
                   target_vars, score_vars>>

\* audit_logger.get_audit_trail(action_type, resource, limit)
query_trail(action_type, resource, limit) ==
    /\ q_result' = <<[query |-> "get_audit_trail",
                      filter |-> <<action_type, resource>>,
                      limit |-> limit,
                      answer |-> get_audit_trail(audit_log, action_type,
                                                 resource, limit)]>>
    /\ UNCHANGED <<service_vars, audit_log, logger_vars, recorded, ring_vars, stamp_vars,
                   target_vars, score_vars>>

\* audit_logger.get_user_activity(actor, limit)
query_activity(actor, limit) ==
    /\ q_result' = <<[query |-> "get_user_activity", filter |-> <<actor>>,
                      limit |-> limit,
                      answer |-> get_user_activity(audit_log, actor, limit)]>>
    /\ UNCHANGED <<service_vars, audit_log, logger_vars, recorded, ring_vars, stamp_vars,
                   target_vars, score_vars>>

\* events and audit entries appended, and the limited queries at any time
NextLimits ==
    \/ \E e \in EventKinds : event_call(e)
    \/ \E e \in LoopEntries : audit_call(e)
    \/ \E ty \in TypeFilters, limit \in Limits : query_events(ty, limit)
    \/ \E a \in ActionFilters, r \in ResourceFilters, limit \in Limits :
         query_trail(a, r, limit)
    \/ \E actor \in Actors, limit \in Limits : query_activity(actor, limit)

SpecLimits == InitLog /\ [][NextLimits]_vars

\* -------------------------------------- requests for any node_id
\* the node_ids a request may name: those of the store and one more
NodeIds == Nodes \cup {"node-99"}

\* the taint, remove-taint and drain requests for any node_id
NextAnyNode ==
    \/ \E n \in NodeIds, k \in TaintKeys, ok \in BOOLEAN : taint_node(n, k, ok)
    \/ \E n \in NodeIds, k \in TaintKeys, ok \in BOOLEAN :
         remove_taint(n, k, ok)
    \/ \E n \in NodeIds : drain_node(n)

SpecAnyNode == Init /\ [][NextAnyNode]_vars

\* ------------------------------- concurrent record_metrics calls
\* an entry of a per-node ring with its timestamp
StampedEntry(timestamp, risk_score) ==
    [timestamp |-> timestamp, risk_score |-> risk_score]

MaxClock == 1

\* time passes
clock_tick ==
    /\ clock < MaxClock
    /\ clock' = clock + 1
    /\ UNCHANGED <<service_vars, audit_log, logger_vars, recorded, ring_vars,
                   rm_pc, rm_entry, calc_vars>>

\* record_metrics up to the entry: entry = {'timestamp': datetime.now(),
\* 'node_id': ..., 'risk_score': ...}, built in the calling thread (the
\* metrics of the entry are left out)
record_begin(t, node_id, risk_score) ==
    /\ rm_pc[t] = "idle"
    /\ rm_pc' = [rm_pc EXCEPT ![t] = "built"]
    /\ rm_entry' = [rm_entry EXCEPT ![t] =
                       <<[timestamp |-> clock, node_id |-> node_id,
                          risk_score |-> risk_score]>>]
    /\ UNCHANGED <<service_vars, audit_log, logger_vars, recorded, ring_vars,
                   clock, calc_vars>>

\* record_metrics from the entry on: the appends to the global ring and
\* to the ring of the node, with the timestamp the entry was built with
record_append(t) ==
    /\ rm_pc[t] = "built"
    /\ LET entry == rm_entry[t][1]
           node_id == entry.node_id
       IN  /\ metrics_history' = ring_append(metrics_history, entry,
                                             max_history)
           /\ node_health_history' =
                  [n \in DOMAIN node_health_history \cup {node_id} |->
                     IF n = node_id
                     THEN ring_append(IF n \in DOMAIN node_health_history
                                      THEN node_health_history[n] ELSE <<>>,
                                      StampedEntry(entry.timestamp,
                                                   entry.risk_score),
                                      NodeHistoryLen)
                     ELSE node_health_history[n]]
           /\ node_order' = IF node_id \in DOMAIN node_health_history
                            THEN node_order ELSE Append(node_order, node_id)
    /\ rm_pc' = [rm_pc EXCEPT ![t] = "idle"]
    /\ rm_entry' = [rm_entry EXCEPT ![t] = None]
    /\ UNCHANGED <<service_vars, audit_log, logger_vars, recorded,
                   max_history, clock, calc_vars>>

\* the loop threads alive side by side, each recording the nodes of its
\* tick, while time passes
NextStamps ==
    \/ clock_tick
    \/ \E t \in Threads, n \in Nodes, r \in RiskScores : record_begin(t, n, r)
    \/ \E t \in Threads : record_append(t)

SpecStamps == InitTop /\ [][NextStamps]_vars

\* ------------------------------------------------------------- claims
\* a loop thread is inside the remediation sequence of its current node:
\* before the taint call, or in the settle delay before the migration
InFlight(t) == pc[t] \in {"taint", "settle"}

MigrateStep(t) ==
    \E raised \in BOOLEAN, evicted \in SUBSET PodNames :
        migrate(t, raised, evicted)

\* C1: no node ever has two remediation sequences (taint, settle delay,
\* migration) in flight at the same time
C1_OneRemediationPerNode ==
    \A t1 \in Threads, t2 \in Threads :
        (t1 # t2 /\ InFlight(t1) /\ InFlight(t2)) => CurNode(t1) # CurNode(t2)

\* C2: however often the loop assesses a node at risk, the node carries at
\* most one taint with key "degradation"
C2_OneDegradationTaint ==
    \A n \in Nodes : KeyCount(node_store[n].taints, "degradation") <= 1

\* C3: a tick leaves its per-node work for the sleep that ends it only
\* after the last node of its list, also when a node's processing raises
C3_LaterNodesProcessed ==
    [][\A t \in Threads :
          (pc[t] \in {"node", "taint", "settle"} /\ pc'[t] = "sleep")
              => idx[t] = Len(NodeList)]_vars

\* C4: a step in which the taint call or the drain call of a remediation
\* fails appends an audit entry with status "failure"
C4_FailureAudited ==
    [][\A t \in Threads :
          (taint_step(t, FALSE) \/ migrate(t, TRUE, {}))
              => /\ audit_log' # <<>>
                 /\ audit_log'[Len(audit_log')].status = "failure"
                 /\ audit_log' = log_action(audit_log,
                                            audit_log'[Len(audit_log')])]_vars

NoUntaintedOther(n) ==
    \A m \in Nodes \ {n} : node_store[m].taints # <<>>

\* C5: in either mode, a migration attempted while no node other than the
\* source is untainted evicts no pod, emits no migration event and appends
\* no MIGRATE audit entry
C5_NoTargetNoMigration ==
    [][\A t \in Threads :
          (MigrateStep(t) /\ NoUntaintedOther(CurNode(t)))
              => /\ node_store' = node_store
                 /\ events' = events
                 /\ audit_log' = audit_log]_vars

\* C6: a taint key leaves a node's taint list only in a remove-taint
\* request for that node and key; no step of the loop removes a taint
C6_TaintOnlyRemovedExplicitly ==
    [][\A n \in Nodes, k \in TaintKeys :
          (/\ KeyCount(node_store[n].taints, k) > 0
           /\ KeyCount(node_store'[n].taints, k) = 0)
              => \E ok \in BOOLEAN : remove_taint(n, k, ok)]_vars

\* a demo node tainted before the service was started is still tainted
\* after a tick has refreshed its metrics
C6_Witness ==
    /\ ~available
    /\ events # <<>>
    /\ events[1].title = "Monitoring Service Started"
    /\ \E n \in Nodes :
         /\ node_store[n].taints # <<>>
         /\ node_store[n].metrics = "degrading"

\* C7: a taint request for a key the node already carries once leaves
\* exactly one taint with that key
C7_TaintIdempotent ==
    [][\A n \in Nodes, k \in TaintKeys :
          (/\ KeyCount(node_store[n].taints, k) = 1
           /\ \E ok \in BOOLEAN : taint_node(n, k, ok))
              => KeyCount(node_store'[n].taints, k) = 1]_vars

C10_AppendsSerialized ==
    (\A t \in Threads : la_pc[t] = "done")
        => \E t1 \in Threads, t2 \in Threads :
              /\ t1 # t2
              /\ audit_log = log_action(log_action(la_base, la_entry[t1]),
                                        la_entry[t2])

\* the last k entries of a sequence, in their order
LastOf(l, k) == SubSeq(l, Len(l) - k + 1, Len(l))

\* C11: after n log_action calls the audit log is the last
\* min(n, max_records) appended entries, in append order
C11_AuditLogIsTail ==
    audit_log = LastOf(recorded, Min(Len(recorded), max_records))

\* two entries beyond a capacity of two have been appended, the last two
\* of them different
C11_Witness ==
    /\ max_records = 2
    /\ Len(recorded) = max_records + 2
    /\ recorded[3] # recorded[4]
    /\ recorded[1] # recorded[3]

\* a sequence back to front
Reverse(l) == [i \in 1..Len(l) |-> l[Len(l) - i + 1]]

\* C12: after n add_event calls the event log holds the min(n, max_events)
\* most recently added events and get_events returns them newest first
C12_EventLogNewestFirst ==
    LET k == Min(Len(recorded), max_events)
    IN  /\ Len(events) = k
        /\ get_events(events, None, None) = Reverse(LastOf(recorded, k))

\* max_events + 1 events were added to a log of capacity two, the oldest
\* different from the others
C12_Witness ==
    /\ max_events = 2
    /\ Len(recorded) = max_events + 1
    /\ recorded[1] # recorded[2]
    /\ recorded[1] # recorded[3]
    /\ recorded[2] # recorded[3]

\* the per-node entries of the calls made for node n, in call order
RecordedFor(n) ==
    LET calls == SelectSeq(recorded, LAMBDA r : r.node_id = n)
    IN  [i \in 1..Len(calls) |-> HealthEntry(calls[i].risk_score)]

\* C13: the global ring is the last min(n, max_history) entries recorded
\* and the ring of every node the last min(k, maxlen) entries recorded for
\* that node, both in record order
C13_RingsAreTails ==
    /\ metrics_history =
           LastOf(recorded, Min(Len(recorded), max_history))
    /\ \A n \in Nodes :
           IF n \in DOMAIN node_health_history
           THEN node_health_history[n] =
                   LastOf(RecordedFor(n),
                          Min(Len(RecordedFor(n)), NodeHistoryLen))
           ELSE RecordedFor(n) = <<>>

\* both rings have dropped an entry: more than maxlen calls for one node
\* with different scores, among more than max_history calls
C13_Witness ==
    /\ Len(recorded) > max_history
    /\ \E n \in DOMAIN node_health_history :
           /\ Len(RecordedFor(n)) > NodeHistoryLen
           /\ node_health_history[n][1] # node_health_history[n][2]
           /\ RecordedFor(n)[1] # node_health_history[n][1]
    /\ Cardinality(DOMAIN node_health_history) = 2

\* the taints or the pods of some node change in the step
StoreChanges ==
    \E n \in Nodes : \/ node_store'[n].taints # node_store[n].taints
                      \/ node_store'[n].pods # node_store[n].pods

\* C14: every step that changes the taints or the pods of a node, in the
\* loop or in a taint, remove-taint or drain request, appends an audit
\* entry for a taint, a removal, a drain or a migration
C14_StateChangeAudited ==
    [][StoreChanges
         => /\ audit_log' # <<>>
            /\ audit_log'[Len(audit_log')].action
                   \in {"TAINT", "REMOVE_TAINT", "DRAIN", "MIGRATE"}
            /\ audit_log' = log_action(audit_log,
                                       audit_log'[Len(audit_log')])]_vars

\* the listed nodes a migration from the source may go to
Candidates ==
    {i \in 1..Len(tg_listing) :
        tg_listing[i].name # tg_source /\ ~tg_listing[i].tainted}

\* C15: the target found is an untainted node other than the source with
\* the fewest pods among those, the one with the smallest node_id when
\* several have the fewest, in whatever order the nodes are listed; with
\* no such node there is no target
C15_BestTarget ==
    tg_result # "pending"
        => /\ Candidates = {} => tg_result = "none"
           /\ tg_result # "none"
                 => \E i \in Candidates :
                       /\ tg_listing[i].name = tg_result
                       /\ \A j \in Candidates :
                             \/ tg_listing[i].pods < tg_listing[j].pods
                             \/ /\ tg_listing[i].pods = tg_listing[j].pods
                                /\ Rank(tg_result)
                                      <= Rank(tg_listing[j].name)

\* C16: a tick of the loop thread always reaches the sleep at its end,
\* also when a call to the backend never returns, and from the sleep the
\* next tick starts
C16_TickCompletes ==
    /\ (pc[MainThread] \notin {"dead", "sleep"})
           ~> (pc[MainThread] = "sleep")
    /\ (pc[MainThread] = "sleep") ~> (pc[MainThread] = "check")

\* C17: predict_degradation never raises, and on an input on which a
\* step of it faults it returns exactly the safe default assessment
C17_FailSoft ==
    sc_pred # None
        => /\ ~sc_pred[1].raised
           /\ FaultStage(sc_input) # "none" => sc_pred[1] = SafeDefault

\* an assessment has been returned for an input on which the model faults
C17_Witness ==
    /\ sc_pred # None
    /\ sc_input.form = "nan"
    /\ sc_pred[1].risk_factors = <<"prediction_error">>

\* the factor is in the list
HasFactor(factors, f) == \E i \in 1..Len(factors) : factors[i] = f

\* C18: an assessment is at risk exactly when its score is above the
\* threshold, an at-risk assessment has a factor, and the generic factor
\* is in it exactly when it is at risk and no metric is over its threshold
C18_NoEvidenceFreeRisk ==
    (sc_pred # None /\ FaultStage(sc_input) = "none")
        => LET r == sc_pred[1]
           IN  /\ r.is_at_risk <=> r.risk_score > risk_threshold
               /\ r.is_at_risk => r.risk_factors # <<>>
               /\ HasFactor(r.risk_factors, "Anomalous Pattern Detected")
                     <=> (r.is_at_risk /\ MetricFactors(sc_input) = <<>>)

\* an at-risk assessment whose only factor is the generic one
C18_Witness ==
    /\ sc_pred # None
    /\ sc_pred[1].is_at_risk
    /\ sc_pred[1].risk_factors = <<"Anomalous Pattern Detected">>

ScenarioMetrics ==
    /\ sc_input.cpu_usage = 92
    /\ sc_input.memory_usage = 91
    /\ sc_input.temperature = 80
    /\ sc_input.network_latency = 40
    /\ sc_input.disk_io = 85
    /\ sc_input.form = "ok"

\* C20: the status is healthy exactly when the weighted sum of the
\* component scores is at least 80, degraded exactly when it is at least
\* 50 and below 80, critical otherwise; the scenario's metrics are
\* critical with a score of at most 20
C20_StatusBands ==
    sc_health # None
        => LET r == sc_health[1]
               sum == WeightedSum(r.component_scores, sc_weights)
           IN  /\ \A k \in DOMAIN r.component_scores :
                     r.component_scores[k] \in {0, 25, 50, 100}
               /\ r.status = "healthy" <=> sum >= 8000
               /\ r.status = "degraded" <=> (sum >= 5000 /\ sum < 8000)
               /\ r.status = "critical" <=> sum < 5000
               /\ (ScenarioMetrics /\ sc_weights = WEIGHTS)
                     => (r.status = "critical" /\ r.overall_score <= 200)

\* the scenario has been scored
C20_Witness ==
    /\ sc_health # None
    /\ ScenarioMetrics
    /\ sc_weights = WEIGHTS
    /\ sc_health[1].status = "critical"
    /\ sc_health[1].overall_score = 88

FactorOrder ==
    <<"High CPU", "Memory Pressure", "High Temperature", "Network Latency",
      "High Disk I/O", "High Pod Density">>

\* for every metric factor, whether the metric is over its threshold
Exceeds(node_data) ==
    <<node_data.cpu_usage > 80, node_data.memory_usage > 85,
      node_data.temperature > 75, node_data.network_latency > 30,
      node_data.disk_io > 70, node_data.pods > 15>>

\* C22: the risk factors hold one factor for exactly the metrics over
\* their thresholds (cpu>80, memory>85, temperature>75, latency>30,
\* disk_io>70, pods>15), in that order, whatever the risk score; the
\* scenario's metrics give a High CPU and a Memory Pressure factor
C22_FactorsByThreshold ==
    (sc_pred # None /\ FaultStage(sc_input) = "none")
        => LET fs == sc_pred[1].risk_factors
               metric == SelectSeq(fs,
                             LAMBDA f : f # "Anomalous Pattern Detected")
               Pos(f) == CHOOSE k \in 1..6 : FactorOrder[k] = f
           IN  /\ \A k \in 1..6 :
                     HasFactor(fs, FactorOrder[k]) <=> Exceeds(sc_input)[k]
               /\ Len(metric) = Cardinality({k \in 1..6 : Exceeds(sc_input)[k]})
               /\ \A i, j \in 1..Len(metric) :
                     i < j => Pos(metric[i]) < Pos(metric[j])
               /\ (sc_input.cpu_usage = 92 /\ sc_input.memory_usage = 91)
                     => (HasFactor(fs, "High CPU")
                         /\ HasFactor(fs, "Memory Pressure"))

\* the scenario assessed with a risk score of 0: five factors all the same
C22_Witness ==
    /\ sc_pred # None
    /\ sc_input = NodeData(92, 91, 80, 40, 85, 0, "ok")
    /\ sc_pred[1].risk_score = 0
    /\ Len(sc_pred[1].risk_factors) = 5

\* the risk scores of the last 20 samples of a node, <<>> if unknown
Window(node_id) ==
    IF node_id \notin DOMAIN node_health_history THEN <<>>
    ELSE LET h == node_health_history[node_id]
             from == IF Len(h) > 20 THEN Len(h) - 19 ELSE 1
         IN  [i \in 1..(Len(h) - from + 1) |-> h[from + i - 1].risk_score]

\* n times the covariance of index and score, and n times the variance
\* of the index, both times n: their quotient is the least-squares slope
CoVar(ys) ==
    LET n == Len(ys)
        sx == SumSeq([i \in 1..n |-> i - 1])
        sy == SumSeq(ys)
    IN  SumSeq([i \in 1..n |-> (n * (i - 1) - sx) * (n * ys[i] - sy)])

VarX(ys) ==
    LET n == Len(ys)
        sx == SumSeq([i \in 1..n |-> i - 1])
    IN  SumSeq([i \in 1..n |-> (n * (i - 1) - sx) * (n * (i - 1) - sx)])

\* C23: the direction of a node is insufficient_data when the node is
\* unknown or has fewer than 5 samples, else degrading when the slope of
\* its last 20 risk scores is over +0.05, improving when it is under
\* -0.05, stable otherwise; the ramp 0.1 .. 0.9 is degrading, a constant
\* sequence stable, and the same history always gets the same answer
C23_Direction ==
    /\ \A i, j \in 1..Len(recorded) :
          recorded[i].node_id = recorded[j].node_id
              => recorded[i].prediction = recorded[j].prediction
    /\ q_result # None
          => LET w == Window(q_result[1].node_id)
                 p == q_result[1].prediction
             IN  /\ p = "insufficient_data" <=> Len(w) < 5
                 /\ p = "degrading"
                       <=> (Len(w) >= 5 /\ CoVar(w) > 5 * VarX(w))
                 /\ p = "improving"
                       <=> (Len(w) >= 5 /\ CoVar(w) < (-5) * VarX(w))
                 /\ p \in {"insufficient_data", "degrading", "improving",
                           "stable"}
                 /\ w = [i \in 1..9 |-> 10 * i] => p = "degrading"
                 /\ (Len(w) >= 5 /\ \A i \in 1..Len(w) : w[i] = w[1])
                       => p = "stable"

\* a node whose last 20 samples rise by more than its 30 samples do was
\* found degrading, and asked twice
C23_Witness ==
    /\ Len(recorded) >= 2
    /\ recorded[1].node_id = NodeList[1]
    /\ recorded[2].node_id = NodeList[1]
    /\ NodeList[1] \in DOMAIN node_health_history
    /\ Len(node_health_history[NodeList[1]]) > 20
    /\ q_result # None
    /\ q_result[1] = [node_id |-> NodeList[1], prediction |-> "degrading"]

\* C24: get_top_risk_nodes(limit) returns at most limit nodes, each with
\* the average of its last 10 risk scores, the higher average first, and
\* of two nodes of equal average the one of the smaller node_id first
C24_TopRiskOrder ==
    [][q_result' # q_result
         => LET nodes == q_result'[1].nodes
            IN  /\ Len(nodes) <= q_result'[1].limit
                /\ \A i \in 1..Len(nodes) :
                      LET h == node_health_history[nodes[i].node_id]
                          from == IF Len(h) > 10 THEN Len(h) - 9 ELSE 1
                      IN  /\ nodes[i].count = Len(h) - from + 1
                          /\ nodes[i].total =
                                 SumSeq([k \in 1..nodes[i].count |->
                                           h[from + k - 1].risk_score])
                /\ \A i, j \in 1..Len(nodes) :
                      i < j
                        => \/ LowerRisk(nodes[j], nodes[i])
                           \/ /\ ~LowerRisk(nodes[i], nodes[j])
                              /\ Rank(nodes[i].node_id)
                                    < Rank(nodes[j].node_id)]_vars

\* C25: the critical events are the entries of the global ring whose
\* risk score is 0.75 or more, and every statistic of an empty ring is 0
C25_CriticalEvents ==
    [][q_result' # q_result
         => LET stats == q_result'[1]
            IN  /\ stats.critical_events =
                       Cardinality({i \in 1..Len(metrics_history) :
                                       metrics_history[i].risk_score >= 75})
                /\ metrics_history = <<>>
                      => /\ stats.total = 0
                         /\ stats.max_risk = 0
                         /\ stats.min_risk = 0
                         /\ stats.var_num = 0
                         /\ stats.critical_events = 0
                         /\ stats.total_events = 0]_vars

\* C26: the statistics of a non-empty audit log report the number of
\* retained entries, the number of retained failures, which is never the
\* larger, and failure_rate = failures / entries, between 0 and 1
C26_FailureRate ==
    [][(q_result' # q_result /\ q_result'[1].stats # None)
         => LET stats == q_result'[1].stats[1]
                failed == Cardinality({i \in 1..Len(audit_log) :
                                          audit_log[i].status = "failure"})
            IN  /\ stats.total_actions = Len(audit_log)
                /\ stats.total_failures = failed
                /\ stats.total_failures <= stats.total_actions
                /\ stats.rate_num * stats.total_actions
                      = failed * stats.rate_den
                /\ stats.rate_num >= 0
                /\ stats.rate_num <= stats.rate_den]_vars

\* C27: with configured weights that do not sum to 1 within 0.01 the
\* monitoring loop is never started, and the weights the scorer computes
\* with are always a valid set
C27_InvalidWeightsRefused ==
    /\ validate(sc_weights)
    /\ ~validate(cfg_weights)
          => (~running /\ \A t \in Threads : pc[t] = "dead")

\* the taints of a list whose key is not the given one, in their order
OtherKeys(ts, key) == SelectSeq(ts, LAMBDA t : t.key # key)

\* C28: a successful remove-taint of a key leaves the node without a
\* taint of that key and with its other taints, its pods and its metrics
\* as they were, and leaves the other nodes alone; a key that is absent
\* leaves everything as it was, so that a taint of an absent key and its
\* removal give the original taints back
C28_RemoveTaintFrame ==
    /\ [][\A n \in Nodes, k \in TaintKeys :
            remove_taint(n, k, TRUE)
              => /\ KeyCount(node_store'[n].taints, k) = 0
                 /\ node_store'[n].taints = OtherKeys(node_store[n].taints, k)
                 /\ node_store'[n].pods = node_store[n].pods
                 /\ node_store'[n].metrics = node_store[n].metrics
                 /\ \A m \in Nodes \ {n} : node_store'[m] = node_store[m]
                 /\ KeyCount(node_store[n].taints, k) = 0
                       => node_store' = node_store]_vars
    /\ [](\A n \in Nodes, k \in TaintKeys :
            KeyCount(node_store[n].taints, k) = 0
              => k8s_remove_taint(k8s_taint_node(node_store[n].taints,
                                                 TaintOf(k)), k)
                   = node_store[n].taints)

\* a removal has left a node with the taint of the other key only
C28_Witness ==
    /\ events # <<>>
    /\ events[1].title \in {"Taint Removed", "Taint Removed (Demo)"}
    /\ \E n \in Nodes : node_store[n].taints = <<TaintOf("maintenance")>>

\* C29: a drain request that succeeds leaves the node without pods and
\* reports as evicted the number of pods the node had, and the pods of
\* the node stay empty through the ticks of the loop that follow
C29_DrainEmpties ==
    /\ [][\A n \in Nodes :
            (drain_node(n) /\ drain_response(n).status = "demo_drained")
              => /\ node_store'[n].pods = {}
                 /\ drain_response(n).evicted
                       = Cardinality(node_store[n].pods)
                 /\ \A m \in Nodes \ {n} :
                       node_store'[m].pods = node_store[m].pods]_vars
    /\ [][\A n \in Nodes :
            (~available /\ node_store[n].pods = {})
              => node_store'[n].pods = {}]_vars

\* a node drained before the service started is still without pods after
\* a whole tick of the loop
C29_Witness ==
    /\ ~available
    /\ events # <<>>
    /\ events[1].title = "Monitoring Service Started"
    /\ pc[MainThread] = "sleep"
    /\ \E n \in Nodes : node_store[n].pods = {}

\* C30: a migration step of the loop that evicts pods of a node or reports
\* its workloads migrated, in either mode, is taken only for a node that
\* carries the degradation taint applied by the remediation
C30_TaintBeforeMigration ==
    [][\A t \in Threads :
          (/\ \E evicted \in SUBSET PodNames : migrate(t, FALSE, evicted)
           /\ migrate_branch(nodes_data[t][CurNode(t)],
                             find_best_target_node(CurNode(t)))
                 \in {"drain", "demo"})
              => KeyCount(node_store[CurNode(t)].taints, "degradation") > 0]_vars

\* the assessments of a node in the history, in order
AssessmentsOf(n) == SelectSeq(recorded, LAMBDA r : r.node = n)

\* C31: the loop emits the risk event of a node and starts its remediation
\* only when the node was not at risk at its previous assessment
C31_RiskOncePerEpisode ==
    [][\A t \in Threads :
          (pc[t] = "node" /\ pc'[t] \in {"taint", "settle"})
              => LET before == AssessmentsOf(CurNode(t))
                 IN  before # <<>> => ~before[Len(before)].is_at_risk]_vars

\* the loop threads that have passed the loop condition and are inside
\* a tick or the sleep that ends it
Looping == {t \in Threads : pc[t] \in {"node", "taint", "settle", "sleep"}}

\* C32: at most one loop thread is inside a tick or its sleep while the
\* service is running, whatever the order of the start and stop requests
C32_OneLoopThread ==
    running => Cardinality(Looping) <= 1

\* C33: a migration step of the loop that reports k pods moved from a
\* node has removed exactly k pods from the pod set of that node
C33_MovedMatchesState ==
    [][\A t \in Threads, evicted \in SUBSET PodNames :
          (/\ migrate(t, FALSE, evicted)
           /\ migrate_branch(nodes_data[t][CurNode(t)],
                             find_best_target_node(CurNode(t)))
                 \in {"drain", "demo"})
              => Cardinality(node_store[CurNode(t)].pods
                             \ node_store'[CurNode(t)].pods)
                   = evicted_count(t, evicted)]_vars

\* the pods of a list outside the system namespaces
Evictable(pods) ==
    {i \in 1..Len(pods) : pods[i].namespace \notin SystemNamespaces}

\* C34: a drain evicts no pod of a system namespace, calls the eviction
\* of every other pod of the node whatever the evictions before it did,
\* and returns the number of pods whose eviction succeeded
C34_DrainEvictsAllEvictable ==
    q_result[1].result # None =>
        LET pods == q_result[1].pods
            r == q_result[1].result[1]
        IN  /\ r.evicted \subseteq Evictable(pods)
            /\ r.attempted = Evictable(pods)
            /\ ~r.raised => r.returned = <<Cardinality(r.evicted)>>

\* C35: a loop thread ends only at the test of a cleared running flag: a
\* step of a tick that raises leaves the thread in its tick or takes it
\* to the sleep that ends the tick, the sleep is followed by the test of
\* the flag, and with the flag set the test starts the next tick
C35_LoopSurvivesFailure ==
    /\ [][\A t \in Threads :
            /\ (pc[t] # "dead" /\ pc'[t] = "dead")
                  => (pc[t] = "check" /\ ~running)
            /\ (pc[t] = "sleep" /\ pc'[t] # "sleep") => pc'[t] = "check"
            /\ (pc[t] = "check" /\ running /\ pc'[t] # "check")
                  => pc'[t] \in {"node", "sleep"}]_vars
    /\ (pc[MainThread] = "sleep") ~> (pc[MainThread] = "check")

\* the tick before this one assessed the first node as healthy and raised
\* at the second, which is missing from the history; the loop thread has
\* slept and is in the next tick
C35_Witness ==
    /\ running
    /\ pc[MainThread] = "node"
    /\ idx[MainThread] = 1
    /\ recorded = <<[node |-> NodeList[1], is_at_risk |-> FALSE]>>

\* C36: every entry of the audit log, from the entry of the
\* initialisation on and in both modes, has the status success, failure
\* or pending
C36_AuditStatusDomain ==
    \A i \in 1..Len(audit_log) :
        audit_log[i].status \in {"success", "failure", "pending"}

\* the entries of a list that a query with its filters matches
Matching(q) ==
    CASE q.query = "get_events" ->
           SelectSeq(events, LAMBDA e : q.filter[1] = None
                                          \/ e.type = q.filter[1][1])
      [] q.query = "get_audit_trail" ->
           SelectSeq(audit_log,
                     LAMBDA r : /\ q.filter[1] = None
                                   \/ r.action = q.filter[1][1]
                                /\ q.filter[2] = None
                                   \/ r.resource = q.filter[2][1])
      [] OTHER ->
           SelectSeq(audit_log, LAMBDA r : r.actor = q.filter[1])

\* C37: a query with a limit, 0 included, answers with at most limit
\* entries: the limit newest matching events from the newest on, or the
\* limit most recent matching audit entries in the order of the log
C37_LimitRespected ==
    [][q_result' # q_result =>
          LET q == q_result'[1]
              m == Matching(q)
              k == Min(q.limit, Len(m))
          IN  /\ Len(q.answer) <= q.limit
              /\ q.answer = IF q.query = "get_events"
                            THEN SubSeq(m, 1, k)
                            ELSE SubSeq(m, Len(m) - k + 1, Len(m))]_vars

C39_TimestampsOrdered ==
    \A n \in DOMAIN node_health_history :
        \A i \in 1..Len(node_health_history[n]),
           j \in 1..Len(node_health_history[n]) :
            i < j => node_health_history[n][i].timestamp
                       <= node_health_history[n][j].timestamp

====
